---- MODULE Spec2Model ----
(***************************************************************************)
(* Verification model of NiftyMIC:                                         *)
(*   - src/src/HierarchicalSliceAlignment.py  (hierarchical alignment)     *)
(*   - src/examples/reconstructStaticVolume.py (static reconstruction)     *)
(*   - src/tests/brain_stripping_test.py       (BrainStripping contract)   *)
(* Rigid/affine transforms are 3x3 integer matrices with integer           *)
(* translations, composed by matrix arithmetic.  Python indices (from 0)   *)
(* are kept for stacks and slices.                                         *)
(***************************************************************************)
EXTENDS Integers, Sequences, FiniteSets, TLC

\* ------------------------------------------------------------------ bounds
MaxStacks == 2      \* stacks held by the stack manager: 1..MaxStacks
MaxSlices == 5      \* slices per stack: 1..MaxSlices
MaxRuns == 2        \* calls of run_hierarchical_alignment on one object
MaxInputs == 3      \* image files in the input directory: 1..MaxInputs
MaxIter == 2        \* largest --iter_max given on the command line

\* ------------------------------------------------------- program constants
step == 3                   \* run_hierarchical_alignment: step = 3
StackLoopStop == 1          \* for i in range(0, 1)   (stack loop)
GroupLoopStop == 1          \* for i in range(0, 1)   (group loop)

VARIABLES
    \* ---- HierarchicalSliceAlignment object and its run
    pc,                 \* position in run_hierarchical_alignment
    err,                \* exception that left run_hierarchical_alignment
    runs,               \* completed + started calls of run_hierarchical_alignment
    stacks,             \* self._stacks: [0..N-1 -> Stack]
    approach,           \* self._volume_estimate_approach
    HR_volume,          \* local HR_volume of the run (heap id, 0 = unset)
    SDA,                \* self._SDA: heap id of its HR volume (0 = attribute unset)
    sa,                 \* self._sa: heap id of its averaged volume (0 = unset)
    volume_estimate,    \* heap id of the current volume estimate (0 = unset)
    estimate_stacks,    \* the list `stacks` handed to the volume-estimate strategy
    i_stack,            \* loop variable i of run_hierarchical_alignment
    i_group,            \* loop variable i of _hierarchically_align_stack
    transform,          \* registration transform of the current group
    group,              \* sub-stack built for the current group
    result,             \* heap id returned by run_hierarchical_alignment (0 = none)
    \* ---- history of the current run (observation only)
    alignCalls,         \* [stack -> calls of _hierarchically_align_stack]
    nUpdates,           \* [stack -> [slice -> calls of update_affine_transform]]
    regCalls,           \* calls of registration_method.Execute in this run
    oracleFailed,       \* registration_method.Execute raised in this run
    lastUpdate,         \* arguments and pre-state of the last group update
    \* ---- object store shared by the programs: Seq of volumes, id = index
    heap,
    \* ---- reconstructStaticVolume.py
    rpc,                \* position in __main__
    inputs,             \* number of image files in --dir_input (alphabetical order)
    args,               \* parsed command line
    rstacks,            \* stacks = data_preprocessing.get_preprocessed_stacks()
    HR_volume_init,     \* heap id (0 = unset)
    HR_volume_srr,      \* HR_volume of __main__: heap id (0 = unset)
    iter,               \* minimizer iterations done
    computed,           \* computations started so far
    rerr,               \* error that ended the script
    output,             \* volumes written to --dir_output
    \* ---- BrainStripping object
    bs,
    \* ---- the least-squares problem of the solver, with and without one stack
    lsq

alignVars == <<pc, err, runs, stacks, approach, HR_volume, SDA, sa, volume_estimate,
               estimate_stacks, i_stack, i_group, transform, group, result,
               alignCalls, nUpdates, regCalls, oracleFailed, lastUpdate>>
reconVars == <<rpc, inputs, args, rstacks, HR_volume_init, HR_volume_srr, iter,
               computed, rerr, output>>
vars == <<alignVars, heap, reconVars, bs, lsq>>

\* ------------------------------------------------------ transform algebra
Vec(x, y, z) == <<x, y, z>>
VecAdd(u, v) == <<u[1] + v[1], u[2] + v[2], u[3] + v[3]>>
VecSub(u, v) == <<u[1] - v[1], u[2] - v[2], u[3] - v[3]>>
VecNeg(u) == <<0 - u[1], 0 - u[2], 0 - u[3]>>
Dot(u, v) == u[1] * v[1] + u[2] * v[2] + u[3] * v[3]
Col(M, j) == <<M[1][j], M[2][j], M[3][j]>>
MatVec(M, v) == <<Dot(M[1], v), Dot(M[2], v), Dot(M[3], v)>>
MatMul(A, B) ==
    << <<Dot(A[1], Col(B, 1)), Dot(A[1], Col(B, 2)), Dot(A[1], Col(B, 3))>>,
       <<Dot(A[2], Col(B, 1)), Dot(A[2], Col(B, 2)), Dot(A[2], Col(B, 3))>>,
       <<Dot(A[3], Col(B, 1)), Dot(A[3], Col(B, 2)), Dot(A[3], Col(B, 3))>> >>
IdentityMatrix == << <<1, 0, 0>>, <<0, 1, 0>>, <<0, 0, 1>> >>
ZeroVec == <<0, 0, 0>>

\* sitk.AffineTransform(3) / sitk.Euler3DTransform(): the identity
AffineTransform3 == [matrix |-> IdentityMatrix, translation |-> ZeroVec]
\* t.SetTranslation(v)
SetTranslation(t, v) == [t EXCEPT !.translation = v]
\* applying a transform to a point
TransformPoint(t, p) == VecAdd(MatVec(t.matrix, p), t.translation)

\* sitkh.get_composited_sitk_affine_transform(transform_outer, transform_inner):
\* x |-> outer(inner(x))
get_composited_sitk_affine_transform(outer, inner) ==
    [matrix |-> MatMul(outer.matrix, inner.matrix),
     translation |-> VecAdd(MatVec(outer.matrix, inner.translation), outer.translation)]

\* rotation by 90 degrees about the z axis
RotZ == << <<0, -1, 0>>, <<1, 0, 0>>, <<0, 0, 1>> >>
\* Variant: the registration optimises a full affine transform (with scale).
RegResults_Affine ==
    { AffineTransform3,
      [matrix |-> << <<2, 0, 0>>, <<0, 1, 0>>, <<0, 0, 1>> >>,
       translation |-> Vec(1, 0, 0)] }
\* Results the rigid registration can return (sitk.Euler3DTransform objects)
RegResults ==
    { AffineTransform3,
      [matrix |-> IdentityMatrix, translation |-> Vec(1, 0, 0)],
      [matrix |-> RotZ, translation |-> Vec(0, 1, 0)] }

\* ------------------------------------------------------------ object store
\* A volume (a Stack object without slices): what it was computed from.
Volume(filename, kind, from, it) ==
    [filename |-> filename, kind |-> kind, from |-> from, it |-> it]
\* st.Stack.from_stack(stack): an independent copy (a new object)
from_stack(v) == v
\* st.Stack.from_stack(stack, filename=...)
from_stack_named(v, filename) == [v EXCEPT !.filename = filename]
\* id of the object a constructor call is about to create
NewId == Len(heap) + 1
\* self._HR_volume = HR_volume: the volume given to the constructor
SelfHRVolume == 1
ConstructorVolume == Volume("HR_volume_given", "given", {}, 0)

\* ------------------------------------------------------------ stacks, slices
\* A Slice: its 2D image, its base placement in the stack and its affine transform.
Slice(s, j) ==
    [sitk |-> <<s, j, 0>>, sitk_mask |-> <<s, j, 1>>,
     base |-> Vec(0, 0, j), affine |-> AffineTransform3]
\* A Stack of n slices: 3D image, 3D mask and the slice objects.
Stack(s, n) ==
    [sitk |-> [j \in 0..(n - 1) |-> <<s, j, 0>>],
     sitk_mask |-> [j \in 0..(n - 1) |-> <<s, j, 1>>],
     slices |-> [j \in 0..(n - 1) |-> Slice(s, j)]]
\* slice.sitk.GetOrigin() / GetDirection(): base placement moved by the affine transform
GetOrigin(slice) == TransformPoint(slice.affine, slice.base)
GetDirection(slice) == slice.affine.matrix
N_stacks == Cardinality(DOMAIN stacks)

\* np.arange(start, stop, st) as a sequence
arange(start, stop, st) ==
    IF stop > start
    THEN [k \in 1..(((stop - start - 1) \div st) + 1) |-> start + (k - 1) * st]
    ELSE <<>>
Range(seq) == {seq[k] : k \in DOMAIN seq}
\* list(set(...)) of small non-negative integers: ascending
RECURSIVE SortedList(_)
SortedList(S) ==
    IF S = {} THEN <<>>
    ELSE LET m == CHOOSE x \in S : \A y \in S : x <= y
         IN <<m>> \o SortedList(S \ {m})

\* ---------------------------------------- _update_slice_transformations_of_group
\* The new affine transform of one slice (loop body, lines 188-205).
NewSliceTransform(slice, origin_ref, R) ==
    LET slice_transform == slice.affine
        translation == VecSub(GetOrigin(slice), origin_ref)
        shift0 == SetTranslation(AffineTransform3, VecNeg(translation))
        shift1a == SetTranslation(AffineTransform3, translation)
        shift1 == get_composited_sitk_affine_transform(R, shift1a)
        a1 == get_composited_sitk_affine_transform(shift0, slice_transform)
        a2 == get_composited_sitk_affine_transform(R, a1)
        a3 == get_composited_sitk_affine_transform(shift1, a2)
    IN a3
\* slice.update_affine_transform(affine_transform)
update_affine_transform(slice, affine_transform) ==
    [slice EXCEPT !.affine = affine_transform]
\* Variant: the loop runs over every slice of the stack instead of `ind`.
UpdatedSlices_AllSlices(slices, ind, R) ==
    LET origin_ref == GetOrigin(slices[ind[1]])
    IN [j \in DOMAIN slices |->
          update_affine_transform(slices[j],
                                  NewSliceTransform(slices[j], origin_ref, R))]
\* The slices of the stack after the loop `for i in ind` (lines 186-208).
UpdatedSlices(slices, ind, R) ==
    LET origin_ref == GetOrigin(slices[ind[1]])
    IN [j \in DOMAIN slices |->
          IF j \in Range(ind)
          THEN update_affine_transform(slices[j],
                                       NewSliceTransform(slices[j], origin_ref, R))
          ELSE slices[j]]

\* ------------------------------ _get_rigid_registration_transform_of_aligned_group
\* stack.sitk[:, :, i_min:i_max:st] re-anchored at slice i_min (lines 136-157)
GroupStack(stack, ind) ==
    LET i_min == ind[1]
        i_max == ind[Len(ind)] + 1
        st == ind[2] - ind[1]
        sel == arange(i_min, i_max, st)
    IN [sitk |-> [k \in DOMAIN sel |-> stack.sitk[sel[k]]],
        sitk_mask |-> [k \in DOMAIN sel |-> stack.sitk_mask[sel[k]]],
        origin |-> GetOrigin(stack.slices[i_min]),
        direction |-> GetDirection(stack.slices[i_min]),
        name |-> <<i_min, st, i_max>>]
NoGroup ==
    [sitk |-> <<>>, sitk_mask |-> <<>>, origin |-> ZeroVec,
     direction |-> IdentityMatrix, name |-> <<0, 0, 0>>]

\* ------------------------------------------------- run_hierarchical_alignment
NoUpdate ==
    [stack |-> -1, ind |-> <<>>, transform |-> AffineTransform3, before |-> <<>>]
ZeroCalls == [s \in DOMAIN stacks |-> 0]
ZeroUpdates == [s \in DOMAIN stacks |-> [j \in DOMAIN stacks[s].slices |-> 0]]

\* Variant: the run works on the constructor's volume itself.
CopyHRVolume_Alias ==
    /\ HR_volume' = SelfHRVolume
    /\ heap' = heap
\* line 55: HR_volume = st.Stack.from_stack(self._HR_volume)
CopyHRVolume ==
    /\ HR_volume' = NewId
    /\ heap' = Append(heap, from_stack(heap[SelfHRVolume]))

\* lines 51-57: entry of run_hierarchical_alignment, up to the stack loop
RunBegin ==
    /\ pc \in {"idle", "done"}
    /\ runs < MaxRuns
    /\ runs' = runs + 1
    /\ CopyHRVolume
    /\ i_stack' = 0
    /\ pc' = "estimate"
    /\ result' = 0
    /\ alignCalls' = ZeroCalls
    /\ nUpdates' = ZeroUpdates
    /\ regCalls' = 0
    /\ oracleFailed' = FALSE
    /\ UNCHANGED <<err, stacks, approach, SDA, sa, volume_estimate, estimate_stacks,
                   i_group, transform, group, lastUpdate>>
    /\ UNCHANGED <<reconVars, bs, lsq>>

\* line 71: stacks_ind = list(set(stacks_ind_all) - set([i]))
\* Variant: the stack being aligned is not removed from the list.
stacks_ind_All(i) == SortedList(0..(N_stacks - 1))
stacks_ind(i) == SortedList((0..(N_stacks - 1)) \ {i})

\* lines 70-79: volume estimate from the other stacks (strategy dispatch, lines
\* 229-259), then the call of _hierarchically_align_stack(self._stacks[i], ...)
EstimateVolume ==
    /\ pc = "estimate"
    /\ estimate_stacks' = stacks_ind(i_stack)
    /\ LET written == [heap EXCEPT ![HR_volume] =
                          Volume(@.filename, approach, Range(stacks_ind(i_stack)), 0)]
       IN /\ heap' = Append(written, from_stack(written[HR_volume]))
          /\ volume_estimate' = NewId
    /\ IF approach = "SDA"
       THEN SDA' = HR_volume /\ sa' = sa
       ELSE sa' = HR_volume /\ SDA' = SDA
    /\ alignCalls' = [alignCalls EXCEPT ![i_stack] = @ + 1]
    /\ i_group' = 0
    /\ pc' = "register"
    /\ UNCHANGED <<err, runs, stacks, approach, HR_volume, i_stack, transform, group,
                   result, nUpdates, regCalls, oracleFailed, lastUpdate>>
    /\ UNCHANGED <<reconVars, bs, lsq>>

\* line 115: ind = np.arange(i_min+i, i_max, step)
ind == arange(0 + i_group, Cardinality(DOMAIN stacks[i_stack].slices), step)

\* Variant: the exception is caught and the initial transform is used instead.
OnRegistrationFailure_Swallowed ==
    /\ pc' = "update"
    /\ transform' = AffineTransform3
    /\ UNCHANGED err
\* registration_method.Execute raises (line 359); nothing catches it
OnRegistrationFailure ==
    /\ pc' = "raised"
    /\ err' = "RuntimeError"
    /\ UNCHANGED <<transform>>

\* lines 115-117, 132-165, 267-366: build the group's sub-stack and register it
RegisterGroup ==
    /\ pc = "register"
    /\ \/ \* line 138: step = ind[1]-ind[0] on a group of one slice
          /\ Len(ind) < 2
          /\ pc' = "raised"
          /\ err' = "IndexError"
          /\ UNCHANGED <<transform, group, regCalls, oracleFailed>>
       \/ \* the registration returns a rigid transform
          /\ Len(ind) >= 2
          /\ group' = GroupStack(stacks[i_stack], ind)
          /\ regCalls' = regCalls + 1
          /\ \E R \in RegResults : transform' = R
          /\ pc' = "update"
          /\ UNCHANGED <<err, oracleFailed>>
       \/ \* the registration fails
          /\ Len(ind) >= 2
          /\ group' = GroupStack(stacks[i_stack], ind)
          /\ regCalls' = regCalls + 1
          /\ oracleFailed' = TRUE
          /\ OnRegistrationFailure
    /\ UNCHANGED <<runs, stacks, approach, HR_volume, SDA, sa, volume_estimate,
                   estimate_stacks, i_stack, i_group, result, alignCalls, nUpdates,
                   lastUpdate, heap>>
    /\ UNCHANGED <<reconVars, bs, lsq>>

\* lines 120, 174-219: update the slices of the group; then the loop heads of
\* lines 113 and 67
UpdateGroup ==
    /\ pc = "update"
    /\ stacks' = [stacks EXCEPT ![i_stack].slices = UpdatedSlices(@, ind, transform)]
    /\ nUpdates' = [nUpdates EXCEPT ![i_stack] =
                      [j \in DOMAIN @ |-> IF j \in Range(ind) THEN @[j] + 1 ELSE @[j]]]
    /\ lastUpdate' = [stack |-> i_stack, ind |-> ind, transform |-> transform,
                      before |-> stacks[i_stack].slices]
    /\ IF i_group + 1 < GroupLoopStop
       THEN /\ i_group' = i_group + 1
            /\ pc' = "register"
            /\ UNCHANGED i_stack
       ELSE IF i_stack + 1 < StackLoopStop
            THEN /\ i_stack' = i_stack + 1
                 /\ pc' = "estimate"
                 /\ UNCHANGED i_group
            ELSE /\ pc' = "return"
                 /\ UNCHANGED <<i_stack, i_group>>
    /\ UNCHANGED <<err, runs, approach, HR_volume, SDA, sa, volume_estimate,
                   estimate_stacks, transform, group, result, alignCalls, regCalls,
                   oracleFailed, heap>>
    /\ UNCHANGED <<reconVars, bs, lsq>>

\* line 97: return st.Stack.from_stack(self._SDA.get_HR_volume())
ReturnVolume ==
    /\ pc = "return"
    /\ \/ /\ SDA # 0
          /\ result' = NewId
          /\ heap' = Append(heap, from_stack(heap[SDA]))
          /\ pc' = "done"
          /\ UNCHANGED err
       \/ \* self._SDA was never assigned
          /\ SDA = 0
          /\ pc' = "raised"
          /\ err' = "AttributeError"
          /\ UNCHANGED <<result, heap>>
    /\ UNCHANGED <<runs, stacks, approach, HR_volume, SDA, sa, volume_estimate,
                   estimate_stacks, i_stack, i_group, transform, group, alignCalls,
                   nUpdates, regCalls, oracleFailed, lastUpdate>>
    /\ UNCHANGED <<reconVars, bs, lsq>>

NextAlign ==
    RunBegin \/ EstimateVolume \/ RegisterGroup \/ UpdateGroup \/ ReturnVolume


\* ===================================================== reconstructStaticVolume.py
\* Command lines: --regularization, --alpha (in 1/100), --iter_max, ...
Regularizations == {"TK0", "TK1", "TK2"}
Alphas == {-1, 0, 2}
IterMaxes == (-1)..MaxIter
NoArgs ==
    [dir_input |-> FALSE, iter_max_is_int |-> FALSE, regularization |-> "TK1",
     alpha |-> 2, iter_max |-> 10, target_stack_index |-> 0,
     provide_comparison |-> FALSE]
Argvs(Regs, Als, Its) ==
    [dir_input : BOOLEAN, iter_max_is_int : BOOLEAN, regularization : Regs,
     alpha : Als, iter_max : Its, target_stack_index : 0..(inputs - 1),
     provide_comparison : BOOLEAN]
AllArgvs == Argvs(Regularizations, Alphas, IterMaxes)

\* parser.parse_args(): --dir_input is required, --iter_max has type=int; no
\* argument has `choices` or a range check (lines 81-92)
ArgparseAccepts(argv) == argv.dir_input /\ argv.iter_max_is_int

\* lines 113-123, 62-101: get_parsed_input_line
ParseArgsFrom(A) ==
    /\ rpc = "start"
    /\ \E argv \in A :
          /\ args' = argv
          /\ \/ /\ ArgparseAccepts(argv)
                /\ rpc' = "parsed"
                /\ UNCHANGED rerr
             \/ /\ ~ArgparseAccepts(argv)
                /\ rpc' = "exit"
                /\ rerr' = "usage"
    /\ UNCHANGED <<inputs, rstacks, HR_volume_init, HR_volume_srr, iter, computed,
                   output, heap>>
    /\ UNCHANGED <<alignVars, bs, lsq>>
ParseArgs == ParseArgsFrom(AllArgvs)

\* data_preprocessing.get_preprocessed_stacks(): copies of the input stacks, the
\* target stack first, the others in their order
get_preprocessed_stacks(n, target) ==
    LET others == SortedList((0..(n - 1)) \ {target})
    IN [k \in 0..(n - 1) |->
          [source |-> IF k = 0 THEN target ELSE others[k]]]

\* lines 127-146: data preprocessing
Preprocess ==
    /\ rpc = "parsed"
    /\ computed' = computed \cup {"preprocessing"}
    /\ rstacks' = get_preprocessed_stacks(inputs, args.target_stack_index)
    /\ rpc' = "preprocessed"
    /\ UNCHANGED <<inputs, args, HR_volume_init, HR_volume_srr, iter, rerr, output,
                   heap>>
    /\ UNCHANGED <<alignVars, bs, lsq>>

\* Variant: the preprocessed list is indexed with --target_stack_index.
InitStackIndex_Target == args.target_stack_index
\* line 158: stacks[0]
InitStackIndex == 0

\* lines 158-159: HR_volume_init = stacks[0].get_isotropically_resampled_stack();
\* HR_volume_init.set_filename("HR_volume_0")
InitVolume ==
    /\ rpc = "preprocessed"
    /\ computed' = computed \cup {"resampling"}
    /\ HR_volume_init' = NewId
    /\ heap' = Append(heap, Volume("HR_volume_0", "isotropic",
                                   {rstacks[InitStackIndex].source}, 0))
    /\ rpc' = "init"
    /\ UNCHANGED <<inputs, args, rstacks, HR_volume_srr, iter, rerr, output>>
    /\ UNCHANGED <<alignVars, bs, lsq>>

\* line 162: HR_volume = st.Stack.from_stack(HR_volume_init, filename="HR_volume")
CopyInitVolume ==
    /\ HR_volume_srr' = NewId
    /\ heap' = Append(heap, from_stack_named(heap[HR_volume_init], "HR_volume"))

\* TikhonovSolver's check of reg_type, alpha and iter_max
ConfigValid(a) ==
    /\ a.regularization \in {"TK0", "TK1"}
    /\ a.alpha >= 0
    /\ a.iter_max > 0

\* lines 162-170: copy of the initial volume, construction of the solver
CreateSolver ==
    /\ rpc = "init"
    /\ CopyInitVolume
    /\ \/ /\ ConfigValid(args)
          /\ rpc' = "solving"
          /\ UNCHANGED rerr
       \/ /\ ~ConfigValid(args)
          /\ rpc' = "raised"
          /\ rerr' = "ConfigError"
    /\ iter' = 0
    /\ UNCHANGED <<inputs, args, rstacks, HR_volume_init, computed, output>>
    /\ UNCHANGED <<alignVars, bs, lsq>>

\* the current iterate, written into HR_volume in place
Iterate(k) ==
    [heap EXCEPT ![HR_volume_srr] =
        Volume(@.filename, "SRR", {rstacks[q].source : q \in DOMAIN rstacks}, k)]

\* Variant: the solver is given a cap one above --iter_max.
SolverIterMax_OffByOne == args.iter_max + 1
\* line 168: iter_max=args.iter_max
SolverIterMax == args.iter_max

\* line 171: one iteration of the minimizer inside SRR.run_reconstruction()
SolveIter ==
    /\ rpc = "solving"
    /\ iter < SolverIterMax
    /\ iter' = iter + 1
    /\ computed' = computed \cup {"solving"}
    /\ heap' = Iterate(iter + 1)
    /\ UNCHANGED <<rpc, inputs, args, rstacks, HR_volume_init, HR_volume_srr, rerr,
                   output>>
    /\ UNCHANGED <<alignVars, bs, lsq>>

\* line 171: the minimizer stops (its own criterion, or iter_max reached)
SolveStop ==
    /\ rpc = "solving"
    /\ computed' = computed \cup {"solving"}
    /\ heap' = Iterate(iter)
    /\ rpc' = "solved"
    /\ UNCHANGED <<inputs, args, rstacks, HR_volume_init, HR_volume_srr, iter, rerr,
                   output>>
    /\ UNCHANGED <<alignVars, bs, lsq>>

\* lines 172-204: statistics, file name, HR_volume.write, comparison, summary
WriteOutput ==
    /\ rpc = "solved"
    /\ LET named == [heap EXCEPT ![HR_volume_srr].filename = "SRR_setting"]
       IN /\ heap' = named
          /\ output' = Append(output, named[HR_volume_srr])
    /\ rpc' = "done"
    /\ UNCHANGED <<inputs, args, rstacks, HR_volume_init, HR_volume_srr, iter,
                   computed, rerr>>
    /\ UNCHANGED <<alignVars, bs, lsq>>

NextRecon ==
    ParseArgs \/ Preprocess \/ InitVolume \/ CreateSolver \/ SolveIter \/ SolveStop
        \/ WriteOutput

\* ================================================================ BrainStripping
Outputs == {"brain_image", "brain_mask", "skull_mask"}
\* the messages of the ValueError of each getter (test_01_input_output)
Message(o) ==
    CASE o = "brain_image" ->
            "Brain was not asked for. Do not set option '-n' and run again."
      [] o = "brain_mask" ->
            "Brain mask was not asked for. Set option '-m' and run again."
      [] o = "skull_mask" ->
            "Skull mask was not asked for. Set option '-s' and run again."
\* the option that switches an output
Option(o) ==
    CASE o = "brain_image" -> "compute_brain_image"
      [] o = "brain_mask" -> "compute_brain_mask"
      [] o = "skull_mask" -> "compute_skull_image"

\* bs.BrainStripping.from_filename(dir, filename): options as given, nothing computed
BrainStripping(flags) ==
    [option |-> flags,
     computed |-> [o \in Outputs |-> FALSE],
     ran |-> FALSE,
     requested |-> {},
     call |-> "none",
     outcome |-> "none"]

\* brain_stripping.compute_brain_image(b) / compute_brain_mask(b) / compute_skull_image(b)
SetOption ==
    /\ \E o \in Outputs : \E b \in BOOLEAN :
          bs' = [bs EXCEPT !.option[o] = b]
    /\ UNCHANGED <<alignVars, heap, reconVars, lsq>>

\* Variant: the brain mask is computed whatever compute_brain_mask says.
StrippingOutputs_MaskAlways(option) ==
    [o \in Outputs |-> IF o = "brain_mask" THEN TRUE ELSE option[o]]
\* the outputs present after run_stripping: those switched on
StrippingOutputs(option) == [o \in Outputs |-> option[o]]

\* brain_stripping.run_stripping()
run_stripping ==
    /\ bs' = [bs EXCEPT !.computed = StrippingOutputs(bs.option),
                        !.ran = TRUE,
                        !.requested = {o \in Outputs : bs.option[o]},
                        !.call = "none",
                        !.outcome = "none"]
    /\ UNCHANGED <<alignVars, heap, reconVars, lsq>>

\* get_brain_image_sitk / get_brain_mask_sitk / get_skull_mask_sitk
get_output_sitk ==
    /\ \E o \in Outputs :
          bs' = [bs EXCEPT !.call = o,
                           !.outcome = IF bs.computed[o] THEN "returned" ELSE Message(o)]
    /\ UNCHANGED <<alignVars, heap, reconVars, lsq>>

\* get_input_image_sitk
get_input_image_sitk ==
    /\ bs' = [bs EXCEPT !.call = "input_image", !.outcome = "returned"]
    /\ UNCHANGED <<alignVars, heap, reconVars, lsq>>

NextStrip == SetOption \/ run_stripping \/ get_output_sitk \/ get_input_image_sitk

\* ================================================== TikhonovSolver (least squares)
\* The HR volume is a row of two voxels; a stack is a sequence of slice samples,
\* each observing one HR voxel with intensity y under a mask bit.
Voxels == {1, 2}
ZeroVolume == <<0, 0>>
Samples == [voxel : Voxels, y : {1, 2}, mask : {0, 1}]
RECURSIVE SumSeq(_)
SumSeq(q) == IF q = <<>> THEN 0 ELSE Head(q) + SumSeq(Tail(q))

\* Variant: the residual is taken over all samples, the mask ignored.
Residual_Unmasked(stack, x) ==
    [q \in DOMAIN stack |-> stack[q].y - x[stack[q].voxel]]
\* masked residual y - A x of one stack (forward operator, section 4.1)
Residual(stack, x) ==
    [q \in DOMAIN stack |-> stack[q].mask * (stack[q].y - x[stack[q].voxel])]
\* adjoint operator: the residual of a stack splatted into the HR grid
Adjoint(stack, r) ==
    [v \in 1..2 |->
        SumSeq([q \in DOMAIN stack |-> IF stack[q].voxel = v THEN r[q] ELSE 0])]
\* sum over all stacks of A^t (y - A x)
DataTerm(stks, x) ==
    [v \in 1..2 |->
        SumSeq([n \in DOMAIN stks |-> Adjoint(stks[n], Residual(stks[n], x))[v]])]
\* D^t D x for TK0 (identity) and TK1 (forward differences), section 4.2
RegTerm(reg, x) ==
    IF reg = "TK0" THEN x ELSE <<x[1] - x[2], x[2] - x[1]>>
\* one iteration of the minimizer on 0.5 |y - A x|^2 + alpha R(x)
LsqStep(stks, x, alpha, reg) ==
    [v \in 1..2 |-> x[v] + DataTerm(stks, x)[v] - alpha * RegTerm(reg, x)[v]]

\* stacks of the problem: S, and S with the stack z added in front or at the end
WithZ(p) == IF p.front THEN <<p.z>> \o p.S ELSE p.S \o <<p.z>>

\* one minimizer iteration on both problems
SolveBothIter ==
    /\ lsq.k < MaxIter
    /\ lsq' = [lsq EXCEPT
                 !.k = @ + 1,
                 !.x_without = LsqStep(lsq.S, @, lsq.alpha, lsq.reg),
                 !.x_with = LsqStep(WithZ(lsq), @, lsq.alpha, lsq.reg)]
    /\ UNCHANGED <<alignVars, heap, reconVars, bs>>
NextSolve == SolveBothIter

SolveProblem(S, z, front, alpha, reg) ==
    [S |-> S, z |-> z, front |-> front, alpha |-> alpha, reg |-> reg, k |-> 0,
     x_without |-> ZeroVolume, x_with |-> ZeroVolume]
SolveIdle ==
    lsq = SolveProblem(<<>>, <<>>, FALSE, 0, "TK1")
\* S: one or two stacks of one sample; z: a stack of one or two samples, mask all zero
InitSolve ==
    \E S \in [1..1 -> [1..1 -> Samples]] \cup [1..2 -> [1..1 -> Samples]] :
    \E z \in [1..1 -> Samples] \cup [1..2 -> Samples] :
    \E front \in BOOLEAN, alpha \in {0, 1}, reg \in {"TK0", "TK1"} :
        /\ \A q \in DOMAIN z : z[q].mask = 0
        /\ lsq = SolveProblem(S, z, front, alpha, reg)

\* ------------------------------------------------------------------- Init
\* The object after __init__ (lines 30-47), for a stack manager of N stacks.
InitAlignFor(Ns, Sl) ==
    /\ pc = "idle"
    /\ err = "none"
    /\ runs = 0
    /\ \E N \in Ns : \E n \in [0..(N - 1) -> Sl] :
          stacks = [s \in 0..(N - 1) |-> Stack(s, n[s])]
    /\ approach \in {"SDA", "Average"}
    /\ HR_volume = 0
    /\ SDA = 0
    /\ sa = 0
    /\ volume_estimate = 0
    /\ estimate_stacks = <<>>
    /\ i_stack = 0
    /\ i_group = 0
    /\ transform = AffineTransform3
    /\ group = NoGroup
    /\ result = 0
    /\ alignCalls = ZeroCalls
    /\ nUpdates = ZeroUpdates
    /\ regCalls = 0
    /\ oracleFailed = FALSE
    /\ lastUpdate = NoUpdate
InitAlign == InitAlignFor(1..MaxStacks, 1..MaxSlices)
InitHeap == heap = <<ConstructorVolume>>
\* reconstructStaticVolume.py not started
ReconIdle ==
    /\ rpc = "start"
    /\ inputs = 0
    /\ args = NoArgs
    /\ rstacks = <<>>
    /\ HR_volume_init = 0
    /\ HR_volume_srr = 0
    /\ iter = 0
    /\ computed = {}
    /\ rerr = "none"
    /\ output = <<>>
\* the script about to run on a directory of 1..MaxInputs image files
InitRecon ==
    /\ rpc = "start"
    /\ inputs \in 1..MaxInputs
    /\ args = NoArgs
    /\ rstacks = <<>>
    /\ HR_volume_init = 0
    /\ HR_volume_srr = 0
    /\ iter = 0
    /\ computed = {}
    /\ rerr = "none"
    /\ output = <<>>
\* no HierarchicalSliceAlignment run: an object on one stack, never called
AlignIdle == InitAlignFor({1}, {1}) /\ approach = "SDA"
StripIdle == bs = BrainStripping([o \in Outputs |-> FALSE])
InitStrip == \E flags \in [Outputs -> BOOLEAN] : bs = BrainStripping(flags)

Init == InitAlign /\ InitHeap /\ ReconIdle /\ StripIdle /\ SolveIdle
Next == NextAlign
Spec == Init /\ [][Next]_vars

InitR == AlignIdle /\ InitHeap /\ InitRecon /\ StripIdle /\ SolveIdle
SpecRecon == InitR /\ [][NextRecon]_vars
\* the script is one sequential program: it keeps running while it can
SpecReconFair == InitR /\ [][NextRecon]_vars /\ WF_vars(NextRecon)

InitS == AlignIdle /\ InitHeap /\ ReconIdle /\ InitStrip /\ SolveIdle
SpecStrip == InitS /\ [][NextStrip]_vars

InitL == AlignIdle /\ InitHeap /\ ReconIdle /\ StripIdle /\ InitSolve
SpecSolve == InitL /\ [][NextSolve]_vars

\* An alignment object and the reconstruction script sharing the object store.
DerivedArgvs ==
    {a \in Argvs({"TK1", "TK2"}, {2}, {1}) :
        a.iter_max_is_int /\ ~a.provide_comparison}
InitD ==
    /\ InitAlignFor({1}, {3, 4})
    /\ InitHeap
    /\ InitRecon
    /\ inputs = 1
    /\ StripIdle
    /\ SolveIdle
NextD ==
    \/ NextAlign
    \/ ParseArgsFrom(DerivedArgvs)
    \/ Preprocess \/ InitVolume \/ CreateSolver \/ SolveIter \/ SolveStop \/ WriteOutput
SpecDerived == InitD /\ [][NextD]_vars

\* =================================================================== claims
\* C1: when _hierarchically_align_stack has completed for a stack, every slice
\* 0..n-1 of that stack lies in one processed group {g, g+step, ...} and has had
\* its affine transform updated exactly once.
C1_EverySliceUpdatedOnce ==
    pc \in {"return", "done"} =>
        \A s \in DOMAIN stacks :
            alignCalls[s] >= 1 =>
                \A j \in DOMAIN stacks[s].slices : nUpdates[s][j] = 1

\* C2: when run_hierarchical_alignment has finished, every stack 0..N-1 has been
\* passed to _hierarchically_align_stack exactly once.
C2_EveryStackAlignedOnce ==
    pc = "done" => \A s \in DOMAIN stacks : alignCalls[s] = 1

\* The registration transform R recentred by the translation t: T(t) o R o T(-t)
Recentred(R, t) ==
    get_composited_sitk_affine_transform(
        SetTranslation(AffineTransform3, t),
        get_composited_sitk_affine_transform(
            R, SetTranslation(AffineTransform3, VecNeg(t))))

\* C3: after a group update with registration transform R, the transform of every
\* slice s of the group is the recentred R composed once with the slice's previous
\* transform A_s, with t_s = origin(s) - origin(first slice of the group); for the
\* first slice this is R composed with A_s.
C3_ComposedOnceRecentred ==
    lastUpdate.stack # -1 =>
        \A k \in DOMAIN lastUpdate.ind :
            LET j == lastUpdate.ind[k]
                before == lastUpdate.before[j]
                first == lastUpdate.before[lastUpdate.ind[1]]
                t == VecSub(GetOrigin(before), GetOrigin(first))
            IN stacks[lastUpdate.stack].slices[j].affine =
                 get_composited_sitk_affine_transform(
                     Recentred(lastUpdate.transform, t), before.affine)

\* C4: every step of an alignment pass leaves the number of stacks, the 3D image
\* and mask of every stack, the number and order of its slices and every slice's
\* pixel data and base placement unchanged, and changes the affine transform of a
\* slice only if the step is the update of a group that contains the slice.
C4_FrameEffect ==
    [][ /\ DOMAIN stacks' = DOMAIN stacks
        /\ \A s \in DOMAIN stacks :
              /\ stacks'[s].sitk = stacks[s].sitk
              /\ stacks'[s].sitk_mask = stacks[s].sitk_mask
              /\ DOMAIN stacks'[s].slices = DOMAIN stacks[s].slices
              /\ \A j \in DOMAIN stacks[s].slices :
                    /\ stacks'[s].slices[j].sitk = stacks[s].slices[j].sitk
                    /\ stacks'[s].slices[j].sitk_mask = stacks[s].slices[j].sitk_mask
                    /\ stacks'[s].slices[j].base = stacks[s].slices[j].base
                    /\ stacks'[s].slices[j].affine # stacks[s].slices[j].affine
                          => (pc = "update" /\ s = i_stack /\ j \in Range(ind))
      ]_vars
\* a group of two slices was moved and the slice between them was not
C4_Witness ==
    /\ pc = "return"
    /\ nUpdates[0][0] = 1
    /\ nUpdates[0][3] = 1
    /\ nUpdates[0][1] = 0
    /\ stacks[0].slices[3].affine # AffineTransform3
    /\ stacks[0].slices[1].affine = AffineTransform3

\* C5: for either strategy, once the estimate / register / update steps are done
\* the call completes and returns a volume: the only errors that leave
\* run_hierarchical_alignment are those of the registration steps.
C5_CompletesForEitherStrategy ==
    (approach \in {"SDA", "Average"} /\ pc = "raised")
        => err \in {"IndexError", "RuntimeError"}

C7_ConfigErrorsFatalAtSetup ==
    (rpc \notin {"start", "exit"} /\ ~ConfigValid(args)) => computed = {}

C9_SourcesUnchanged ==
    [][ /\ heap'[SelfHRVolume] = heap[SelfHRVolume]
        /\ HR_volume' # SelfHRVolume
        /\ HR_volume_init # 0 =>
              /\ HR_volume_init' = HR_volume_init
              /\ heap'[HR_volume_init] = heap[HR_volume_init]
              /\ HR_volume_srr' # HR_volume_init
      ]_vars
\* an alignment run and a reconstruction have both written their volumes
C9_Witness ==
    /\ pc = "done"
    /\ rpc = "done"
    /\ heap[HR_volume].kind = "SDA"
    /\ heap[HR_volume_srr].kind = "SRR"
    /\ heap[HR_volume_srr].it = 1
    /\ heap[SelfHRVolume] = ConstructorVolume
    /\ heap[HR_volume_init].kind = "isotropic"

\* C10: after run_stripping, the getter of an output that was not requested
\* before the run raises ValueError with the message naming the missing option,
\* and the getter of an output that was requested returns it.
C10_GettersAfterRun ==
    (bs.ran /\ bs.call \in Outputs) =>
        bs.outcome = IF bs.call \in bs.requested THEN "returned" ELSE Message(bs.call)
\* only the brain mask was requested and the brain image getter raised
C10_Witness ==
    /\ bs.ran
    /\ bs.requested = {"brain_mask"}
    /\ bs.computed["brain_mask"]
    /\ bs.call = "brain_image"
    /\ bs.outcome = Message("brain_image")

\* C11: the solver never does more than iter_max minimizer iterations; the iterate
\* it stops with (after iter_max iterations too) is accepted without error and is
\* the volume written to the output; and a started solver run always ends with
\* the HR volume written.
C11_SolverStopsAtIterMax ==
    /\ [](/\ rpc \in {"solving", "solved", "done"} => iter <= args.iter_max
          /\ rpc \in {"solved", "done"} =>
                /\ rerr = "none"
                /\ heap[HR_volume_srr].kind = "SRR"
                /\ heap[HR_volume_srr].it = iter
          /\ rpc = "done" => output = <<heap[HR_volume_srr]>>)
    /\ (rpc = "solving") ~> (rpc = "done")
\* iter_max iterations were done and the iterate was written
C11_Witness ==
    /\ rpc = "done"
    /\ args.iter_max = 2
    /\ iter = args.iter_max
    /\ Len(output) = 1
    /\ output[1].it = 2

\* C12: for stacks S and a stack z whose mask is all zero, the solver's HR volume
\* for S with z added equals its HR volume for S alone, after every number of
\* iterations.
C12_ZeroMaskStackNoEffect ==
    lsq.x_with = lsq.x_without
\* two iterations on a problem with a visible sample, z holding intensities
C12_Witness ==
    /\ lsq.k = 2
    /\ lsq.x_with # ZeroVolume
    /\ Len(lsq.S) = 2
    /\ Len(lsq.z) = 2
    /\ lsq.z[1].y = 2

\* transpose and determinant of a 3x3 matrix
Transpose(M) == <<Col(M, 1), Col(M, 2), Col(M, 3)>>
Det(M) ==
    M[1][1] * (M[2][2] * M[3][3] - M[2][3] * M[3][2])
    - M[1][2] * (M[2][1] * M[3][3] - M[2][3] * M[3][1])
    + M[1][3] * (M[2][1] * M[3][2] - M[2][2] * M[3][1])
\* a rigid transform: a rotation (orthogonal, determinant 1) and a translation
IsRigid(t) ==
    /\ MatMul(Transpose(t.matrix), t.matrix) = IdentityMatrix
    /\ Det(t.matrix) = 1

\* C13: in every state, the registration result in use is a rigid transform and
\* the affine transform of every slice of every stack is a rigid transform (no
\* shear, no scale), whatever the number of updates applied to it.
C13_SliceTransformsRigid ==
    /\ IsRigid(transform)
    /\ \A s \in DOMAIN stacks :
          \A j \in DOMAIN stacks[s].slices : IsRigid(stacks[s].slices[j].affine)
\* a slice updated in two runs that has been rotated and moved
C13_Witness ==
    /\ runs = 2
    /\ \E s \in DOMAIN stacks :
          \E j \in DOMAIN stacks[s].slices :
             /\ nUpdates[s][j] >= 1
             /\ lastUpdate.transform.matrix = IdentityMatrix
             /\ lastUpdate.transform.translation # ZeroVec
             /\ stacks[s].slices[j].affine.matrix # IdentityMatrix
             /\ stacks[s].slices[j].affine.translation # ZeroVec

\* a list without duplicates holding exactly the elements of S
ListsExactly(seq, S) ==
    /\ Range(seq) = S
    /\ Len(seq) = Cardinality(S)

\* C14: for every stack i, the list stacks_ind computed for i holds every stack
\* j # i exactly once and not i (the empty list for one stack); and while stack
\* i_stack is being aligned, the list handed to the volume-estimate strategy is
\* that list and the volume estimate was computed from exactly those stacks.
C14_EstimateFromOtherStacks ==
    /\ \A i \in 0..(N_stacks - 1) :
          ListsExactly(stacks_ind(i), (0..(N_stacks - 1)) \ {i})
    /\ pc \in {"register", "update"} =>
          /\ ListsExactly(estimate_stacks, (0..(N_stacks - 1)) \ {i_stack})
          /\ heap[volume_estimate].from = (0..(N_stacks - 1)) \ {i_stack}
\* two stacks: stack 0 is aligned against an estimate from stack 1 alone
C14_Witness ==
    /\ pc = "register"
    /\ N_stacks = 2
    /\ i_stack = 0
    /\ estimate_stacks = <<1>>
    /\ heap[volume_estimate].from = {1}

\* C15: building the sub-stack of a non-empty group ind never fails, and once it
\* is built it holds exactly the slices ind in ascending order, image and mask,
\* and is anchored at the origin and direction of slice ind[0].
C15_GroupSubStackBuilt ==
    /\ (pc = "raised" /\ Len(ind) >= 1) => err # "IndexError"
    /\ pc = "update" =>
          /\ group.sitk = [k \in DOMAIN ind |-> stacks[i_stack].sitk[ind[k]]]
          /\ group.sitk_mask = [k \in DOMAIN ind |-> stacks[i_stack].sitk_mask[ind[k]]]
          /\ \A k \in 1..(Len(ind) - 1) : ind[k] < ind[k + 1]
          /\ group.origin = GetOrigin(stacks[i_stack].slices[ind[1]])
          /\ group.direction = GetDirection(stacks[i_stack].slices[ind[1]])
====
